---- MODULE Spec2Model ----
(***************************************************************************)
(* Model of the alpha-lateralization analysis of EEG/functions/alpha.py:   *)
(* sort_epochs, extract_conditions, compute_alpha_by_side, alpha_power_df. *)
(* An mne.Epochs object is modelled by its ordered event_id keys and its   *)
(* ordered trials; a pandas data frame by its sequence of rows.            *)
(* Of EEG/functions/preproc.py it models the choice of events in           *)
(* epoch_data and the input loop get_user_inputs.                          *)
(***************************************************************************)
EXTENDS Integers, Sequences, FiniteSets, TLC

VARIABLES pc, epochs, sorted_epochs, conditions, right_power_list,
          left_power_list, df, err,
          task, e_list, raw, events, event_id, tmin, tmax,
          stdin, nread, user_inputs

\* arguments and locals of epoch_data; the lines typed to get_user_inputs,
\* how many of them it has read, and its list
preproc_vars == <<task, e_list, raw, events, event_id, tmin, tmax,
                  stdin, nread, user_inputs>>

vars == <<pc, epochs, sorted_epochs, conditions, right_power_list,
          left_power_list, df, err, preproc_vars>>

(***************************************************************************)
(* Bounds of the model.                                                    *)
(***************************************************************************)
\* largest number of trials of an enumerated trial store
MaxTrials == 3
\* largest number of positions of the reference label list that a caller of
\* alpha_power_df overwrites with another label
MaxEdits == 1
\* largest number of rows of an event list, of samples of a recording, and
\* largest sampling rate (Hz) given to epoch_data
MaxEvents == 3
MaxSamples == 4
MaxSfreq == 1
\* largest number of lines typed to get_user_inputs
MaxLines == 3

(***************************************************************************)
(* Python strings and lists.                                               *)
(***************************************************************************)
\* Python's `sub in s` on strings: sub occurs in s as a substring
Contains(sub, s) ==
    \E i \in 1..(Len(s) - Len(sub) + 1) : SubSeq(s, i, i + Len(sub) - 1) = sub

RECURSIVE SplitFrom(_, _, _)
\* the set of "/"-separated parts of s from position i on, part starting at from
SplitFrom(s, from, i) ==
    IF i > Len(s) THEN {SubSeq(s, from, Len(s))}
    ELSE IF SubSeq(s, i, i) = "/"
         THEN {SubSeq(s, from, i - 1)} \cup SplitFrom(s, i + 1, i + 1)
         ELSE SplitFrom(s, from, i + 1)

\* set(key.split("/")): the tags of a hierarchical event name
Tags(key) == SplitFrom(key, 1, 1)

\* the elements of a list, as a set
Range(list) == {list[i] : i \in 1..Len(list)}

\* `del list[index]`, index counted from 0 as in Python
DelAt(list, index) ==
    SubSeq(list, 1, index) \o SubSeq(list, index + 2, Len(list))

RECURSIVE SortedDesc(_)
\* a set of integers as the list that list.sort(reverse=True) leaves
SortedDesc(S) ==
    IF S = {} THEN <<>>
    ELSE LET m == CHOOSE x \in S : \A y \in S : y <= x
         IN <<m>> \o SortedDesc(S \ {m})

(***************************************************************************)
(* mne.Epochs: [event_id |-> ordered keys, trials |-> ordered trials],     *)
(* a trial being [idx |-> its index in the recording, tag |-> its event].  *)
(***************************************************************************)
\* the event_id that epoch_data gives the N2pc task
N2pcEventId ==
    << "dis_top/target_l", "dis_top/target_r", "no_dis/target_l",
       "no_dis/target_r", "dis_bot/target_l", "dis_bot/target_r",
       "dis_right/target_l", "dis_left/target_r" >>

\* the event_id that epoch_data gives the Alpheye task
AlpheyeEventId == << "Landscape", "Human" >>

\* the event_id that epoch_data gives the resting-state tasks
RestingEventId == << "fake_event" >>

\* epochs[event]: the trials whose event name carries every tag of `event`,
\* in their order, with event_id cut down to the names still present
GetItem(e, event) ==
    LET use_keys == {k \in Range(e.event_id) : Tags(event) \subseteq Tags(k)}
        Hit(t)   == t.tag \in use_keys
        kept     == SelectSeq(e.trials, Hit)
        Present(k) == \E i \in 1..Len(kept) : kept[i].tag = k
    IN [event_id |-> SelectSeq(e.event_id, Present), trials |-> kept]

\* mne.concatenate_epochs([a, b]): a's trials then b's; event_id is a's
\* dictionary updated with b's
ConcatenateEpochs(a, b) ==
    LET New(k) == k \notin Range(a.event_id)
    IN [event_id |-> a.event_id \o SelectSeq(b.event_id, New),
        trials   |-> a.trials \o b.trials]

(***************************************************************************)
(* sort_epochs                                                             *)
(***************************************************************************)
\* the working list after the loop over event_ids.keys()
SelectAll(e) == [i \in 1..Len(e.event_id) |-> GetItem(e, e.event_id[i])]

IndicesMissingOne == {0, 1, 4}
indices_to_remove == {0, 1, 4, 5}

\* the deletion order: indices_to_remove.sort(reverse=True)
RemovalOrderAscending == << 0, 1, 4, 5 >>
RemovalOrder == SortedDesc(indices_to_remove)

RECURSIVE DeleteAll(_, _)
\* for index in indices: del list[index]
DeleteAll(list, indices) ==
    IF indices = <<>> THEN list
    ELSE DeleteAll(DelAt(list, Head(indices)), Tail(indices))

\* the merged slices and the list after they are appended
MergedBottomFirst(w) ==
    w \o << ConcatenateEpochs(w[5], w[1]), ConcatenateEpochs(w[6], w[2]) >>
Merged(w) ==
    w \o << ConcatenateEpochs(w[1], w[5]), ConcatenateEpochs(w[2], w[6]) >>

\* the result of sort_epochs(e): an error name, or the list returned
SortEpochsChecked(e) ==
    LET w == SelectAll(e)
    IN IF ~(Range(N2pcEventId) \subseteq Range(e.event_id))
       THEN [error |-> "MissingConditionError", value |-> <<>>]
       ELSE [error |-> "", value |-> DeleteAll(Merged(w), RemovalOrder)]
SortEpochsResult(e) ==
    LET w == SelectAll(e)
    IN IF Len(w) < 6
       THEN [error |-> "IndexError", value |-> <<>>]
       ELSE [error |-> "", value |-> DeleteAll(Merged(w), RemovalOrder)]

(***************************************************************************)
(* extract_conditions                                                      *)
(***************************************************************************)
\* cond[0] of list(i.event_id.keys()): the first key of the slice
FirstKey(slice) == slice.event_id[1]

\* the result of extract_conditions(epochs_list): cond[0] raises IndexError
\* for a slice whose event_id is empty
ExtractConditionsStrict(epochs_list) ==
    IF \E i \in 1..Len(epochs_list) : Len(epochs_list[i].event_id) # 1
    THEN [error |-> "IndexError", value |-> <<>>]
    ELSE [error |-> "",
          value |-> [i \in 1..Len(epochs_list) |-> FirstKey(epochs_list[i])]]
ExtractConditionsResult(epochs_list) ==
    IF \E i \in 1..Len(epochs_list) : epochs_list[i].event_id = <<>>
    THEN [error |-> "IndexError", value |-> <<>>]
    ELSE [error |-> "",
          value |-> [i \in 1..Len(epochs_list) |-> FirstKey(epochs_list[i])]]

(***************************************************************************)
(* compute_alpha_by_side.  The time-frequency transform is a numerical     *)
(* library call; it is modelled by a fixed recording in which trial idx    *)
(* has power idx at the right cluster and ten times that at the left one,  *)
(* the power of a slice being the average over its trials.                 *)
(***************************************************************************)
right_elecs == << "P8", "P10", "PO8" >>
left_elecs == << "P7", "P9", "PO7" >>

\* the power of one trial at one cluster
TrialPower(trial, elecs) ==
    IF elecs = right_elecs THEN trial.idx ELSE 10 * trial.idx

RECURSIVE SumPower(_, _)
SumPower(trials, elecs) ==
    IF trials = <<>> THEN 0
    ELSE TrialPower(Head(trials), elecs) + SumPower(Tail(trials), elecs)

\* the mean of no value: what the reduction leaves for a slice without trials
NaNPower == -1

\* tfr_morlet(...).to_data_frame()[elecs].mean(axis=1).mean(axis=0): the mean
\* power of one slice at one cluster
MeanPower(slice, elecs) ==
    IF slice.trials = <<>> THEN NaNPower
    ELSE SumPower(slice.trials, elecs) \div Len(slice.trials)

\* the two lists compute_alpha_by_side(sorted_epochs) returns
ComputeAlphaBySideFirstSlice(list) ==
    [right |-> [i \in 1..Len(list) |-> MeanPower(list[1], right_elecs)],
     left  |-> [i \in 1..Len(list) |-> MeanPower(list[1], left_elecs)]]
ComputeAlphaBySideResult(list) ==
    [right |-> [i \in 1..Len(list) |-> MeanPower(list[i], right_elecs)],
     left  |-> [i \in 1..Len(list) |-> MeanPower(list[i], left_elecs)]]

(***************************************************************************)
(* alpha_power_df.  A data frame is the sequence of its rows; a cell that  *)
(* was never assigned holds NaN.                                           *)
(***************************************************************************)
NaN == "NaN"

\* the target_side cell of a row (lines 166-169)
TargetSideSwapped(label) ==
    IF Contains("target_r", label) THEN "left"
    ELSE IF Contains("target_l", label) THEN "right"
    ELSE NaN
TargetSide(label) ==
    IF Contains("target_l", label) THEN "left"
    ELSE IF Contains("target_r", label) THEN "right"
    ELSE NaN

\* the distractor_side cell of a row (lines 172-177)
DistractorSideNoTop(label) ==
    IF Contains("no_dis", label) THEN "nodis"
    ELSE IF Contains("dis_right", label) THEN "right"
    ELSE IF Contains("dis_left", label) THEN "left"
    ELSE NaN
DistractorSideDefault(label) ==
    IF Contains("dis_right", label) THEN "right"
    ELSE IF Contains("dis_left", label) THEN "left"
    ELSE "nodis"
DistractorSide(label) ==
    IF Contains("dis_top", label) \/ Contains("no_dis", label) THEN "nodis"
    ELSE IF Contains("dis_right", label) THEN "right"
    ELSE IF Contains("dis_left", label) THEN "left"
    ELSE NaN

\* the alpha_side cell of a row (lines 180-189); row_number counts from 0
AlphaSideNoHalves(row_number, label) ==
    IF Contains("target_l", label) THEN "contra"
    ELSE IF Contains("target_r", label) THEN "ipsi"
    ELSE NaN
AlphaSide(row_number, label) ==
    IF row_number <= 5
    THEN IF Contains("target_l", label) THEN "contra"
         ELSE IF Contains("target_r", label) THEN "ipsi"
         ELSE NaN
    ELSE IF Contains("target_l", label) THEN "ipsi"
         ELSE IF Contains("target_r", label) THEN "contra"
         ELSE NaN

\* the alpha_power column: right_power_list + left_power_list
PowerColumnLeftFirst(right, left) == left \o right
PowerColumn(right, left) == right \o left

\* the condition column: conditions * 2
ConditionColumnMirrored(conds) ==
    conds \o [i \in 1..Len(conds) |-> conds[Len(conds) + 1 - i]]
ConditionColumn(conds) == conds \o conds

\* the result of alpha_power_df(conds, right, left): pandas refuses a column
\* whose length is not the length of the frame
AlphaPowerDfResult(conds, right, left) ==
    LET condition   == ConditionColumn(conds)
        alpha_power == PowerColumn(right, left)
    IN IF Len(alpha_power) # Len(condition)
       THEN [error |-> "ValueError", value |-> <<>>]
       ELSE [error |-> "",
             value |-> [r \in 1..Len(condition) |->
                 [condition       |-> condition[r],
                  target_side     |-> TargetSide(condition[r]),
                  distractor_side |-> DistractorSide(condition[r]),
                  alpha_side      |-> AlphaSide(r - 1, condition[r]),
                  alpha_power     |-> alpha_power[r]]]]

(***************************************************************************)
(* The trial stores and the argument lists of the runs.                    *)
(***************************************************************************)
RECURSIVE SeqsUpTo(_, _)
\* the sequences over S of length at most n
SeqsUpTo(S, n) ==
    IF n = 0 THEN {<<>>}
    ELSE LET shorter == SeqsUpTo(S, n - 1)
         IN shorter \cup {Append(s, x) : s \in {t \in shorter : Len(t) = n - 1}, x \in S}

\* the store whose i-th trial has the i-th event name of `tags`
StoreOf(ids, tags) ==
    [event_id |-> ids,
     trials   |-> [i \in 1..Len(tags) |-> [idx |-> i, tag |-> tags[i]]]]

\* trials per event name of the store with equally filled buckets
TrialsPerBucket == 10

\* the N2pc store with TrialsPerBucket trials of every event name, the
\* event names taking turns
FullStore ==
    StoreOf(N2pcEventId,
            [i \in 1..(Len(N2pcEventId) * TrialsPerBucket) |->
                N2pcEventId[((i - 1) % Len(N2pcEventId)) + 1]])

\* event_id dictionaries other than the N2pc one: fewer keys, the keys in
\* another order, another key in place of one
OtherEventIds ==
    { AlpheyeEventId, RestingEventId,
      SubSeq(N2pcEventId, 1, 7), SubSeq(N2pcEventId, 1, 6),
      SubSeq(N2pcEventId, 3, 8) \o SubSeq(N2pcEventId, 1, 2),
      SubSeq(N2pcEventId, 1, 7) \o << "dis_left/target_l" >> }

Stores ==
    {FullStore}
    \cup {StoreOf(ids, tags) : ids \in {N2pcEventId},
                               tags \in SeqsUpTo(Range(N2pcEventId), MaxTrials)}
    \cup UNION {{StoreOf(ids, tags) : tags \in SeqsUpTo(Range(ids), MaxTrials - 1)} :
                  ids \in OtherEventIds}

\* the labels of the six slices as the documentation of sort_epochs and the
\* specification name them
RefLabels ==
    << "no_dis/target_l", "no_dis/target_r", "dis_right/target_l",
       "dis_left/target_r", "dis_vert/target_l", "dis_vert/target_r" >>

\* the labels a caller may put in place of them
Labels ==
    Range(N2pcEventId)
    \cup { "dis_vert/target_l", "dis_vert/target_r", "dis_mid/target_l",
           "Landscape", "target_l/target_r", "dis_top/dis_left/target_r",
           "dis_left/target_right" }

RECURSIVE Edited(_)
\* RefLabels with at most n positions overwritten
Edited(n) ==
    IF n = 0 THEN {RefLabels}
    ELSE LET fewer == Edited(n - 1)
         IN fewer \cup {[l EXCEPT ![i] = x] : l \in fewer, i \in 1..Len(RefLabels), x \in Labels}

LabelLists == Edited(MaxEdits)

PowerLists ==
    { [i \in 1..6 |-> i], [i \in 1..6 |-> 10 * i], [i \in 1..5 |-> i] }

NoEpochs == [event_id |-> <<>>, trials |-> <<>>]

(***************************************************************************)
(* epoch_data, up to the call of mne.Epochs: the events, the event_id and  *)
(* the window that the task selects.  A row of an event list is            *)
(* <<timepoint, duration, stim>>; event_id is the list of its <<name,      *)
(* code>> items; tmin and tmax are in milliseconds.                        *)
(***************************************************************************)
\* bool(s) of a string: the empty string is false, every other one true
Truthy(s) == Len(s) > 0

\* the event list whose i-th row has the i-th stimulus code of `stims`
EventList(stims) == [i \in 1..Len(stims) |-> << i, 0, stims[i] >>]

\* the mask of the N2pc branch: a stimulus 1..8 followed by the code 128, or
\* the code 128 preceded by a stimulus 1..8
N2pcMask(list, i) ==
    \/ list[i][3] \in 1..8 /\ i < Len(list) /\ list[i + 1][3] = 128
    \/ list[i][3] = 128 /\ i > 1 /\ list[i - 1][3] \in 1..8

\* the rows of df[mask], in their order
Rows(list, kept) ==
    LET RECURSIVE From(_)
        From(i) == IF i > Len(list) THEN <<>>
                   ELSE (IF i \in kept THEN << list[i] >> ELSE <<>>) \o From(i + 1)
    IN From(1)

\* the mask of the Alpheye branch: the stimulus codes 2 and 4
AlpheyeMask(list, i) == list[i][3] = 2 \/ list[i][3] = 4

\* np.arange(0, len(raw), step) as rows <<sample, 0, 1>>
FakeEvents(n_samples, step) ==
    LET count == (n_samples + step - 1) \div step
    IN [k \in 1..count |-> << (k - 1) * step, 0, 1 >>]

\* the condition of the third branch, line 208
RestingConditionCompared(t) ==
    t = "RESTINGSTATECLOSE" \/ t = "RESTINGSTATEOPEN"
RestingCondition(t) ==
    t = "RESTINGSTATECLOSE" \/ Truthy("RESTINGSTATEOPEN")

\* the locals epoch_data holds when it comes to mne.Epochs(raw, events=events,
\* event_id=event_id, tmin=tmin, tmax=tmax, ...); without a branch taken the
\* names are not bound and the call raises UnboundLocalError
EpochDataResult(t, list, r) ==
    IF t = "N2pc"
    THEN [error |-> "", branch |-> "N2pc",
          events |-> Rows(list, {i \in 1..Len(list) : N2pcMask(list, i)}),
          event_id |-> [i \in 1..Len(N2pcEventId) |-> << N2pcEventId[i], i >>],
          tmin |-> -200, tmax |-> 800]
    ELSE IF t = "Alpheye"
    THEN [error |-> "", branch |-> "Alpheye",
          events |-> Rows(list, {i \in 1..Len(list) : AlpheyeMask(list, i)}),
          event_id |-> << << AlpheyeEventId[1], 2 >>, << AlpheyeEventId[2], 4 >> >>,
          tmin |-> -200, tmax |-> 6000]
    ELSE IF RestingCondition(t)
    THEN [error |-> "", branch |-> "resting",
          events |-> FakeEvents(r.n_samples, ((2000 - 0) * r.sfreq) \div 1000),
          event_id |-> << << RestingEventId[1], 1 >> >>,
          tmin |-> 0, tmax |-> 2000]
    ELSE [error |-> "UnboundLocalError", branch |-> "",
          events |-> <<>>, event_id |-> <<>>, tmin |-> 0, tmax |-> 0]

\* the task names of the pipeline, and one it does not know
Tasks == {"N2pc", "Alpheye", "RESTINGSTATECLOSE", "RESTINGSTATEOPEN", "Oddball"}

\* stimulus codes of an event list: a stimulus, a code out of range, the
\* response code
Stims == {2, 9, 128}

NoRaw == [n_samples |-> 0, sfreq |-> 0]

(***************************************************************************)
(* get_user_inputs: one step per turn of its loop, which reads one line.   *)
(***************************************************************************)
UpperCase == "ABCDEFGHIJKLMNOPQRSTUVWXYZ"
LowerCase == "abcdefghijklmnopqrstuvwxyz"
Digits == "0123456789"

\* the position of the character c in the string s, 0 when it is not there
IndexIn(c, s) ==
    IF \E k \in 1..Len(s) : SubSeq(s, k, k) = c
    THEN CHOOSE k \in 1..Len(s) : SubSeq(s, k, k) = c
    ELSE 0

RECURSIVE StrLower(_)
\* str.lower(), for the letters A to Z
StrLowerNot(s) == s
StrLower(s) ==
    IF Len(s) = 0 THEN ""
    ELSE LET c == SubSeq(s, 1, 1)
             k == IndexIn(c, UpperCase)
         IN (IF k = 0 THEN c ELSE SubSeq(LowerCase, k, k))
               \o StrLower(SubSeq(s, 2, Len(s)))

RECURSIVE Strip(_)
\* str.strip() of blanks, as int() does before it reads the number
Strip(s) ==
    IF Len(s) > 0 /\ SubSeq(s, 1, 1) = " " THEN Strip(SubSeq(s, 2, Len(s)))
    ELSE IF Len(s) > 0 /\ SubSeq(s, Len(s), Len(s)) = " "
         THEN Strip(SubSeq(s, 1, Len(s) - 1))
         ELSE s

\* the line without its blanks and its sign
Unsigned(s) ==
    LET t == Strip(s)
    IN IF Len(t) > 0 /\ SubSeq(t, 1, 1) \in {"+", "-"}
       THEN SubSeq(t, 2, Len(t)) ELSE t

\* int(s) does not raise ValueError: blanks, a sign, then decimal digits only
IsInt(s) ==
    LET d == Unsigned(s)
    IN /\ Len(d) > 0
       /\ \A k \in 1..Len(d) : IndexIn(SubSeq(d, k, k), Digits) # 0

RECURSIVE DigitsValue(_)
DigitsValue(d) ==
    IF Len(d) = 0 THEN 0
    ELSE 10 * DigitsValue(SubSeq(d, 1, Len(d) - 1))
            + (IndexIn(SubSeq(d, Len(d), Len(d)), Digits) - 1)

\* int(s) of a line for which IsInt holds
IntOf(s) ==
    LET t == Strip(s)
    IN IF SubSeq(t, 1, 1) = "-" THEN 0 - DigitsValue(Unsigned(s))
       ELSE DigitsValue(Unsigned(s))

\* the lines a user may type
Lines == {"ok", "OK", "Ok", " ok", "3", "12", "-4", " 7 ", "x"}

(***************************************************************************)
(* The runs: the analysis of a trial store, sort_epochs first, then        *)
(* extract_conditions and compute_alpha_by_side in either order, then      *)
(* alpha_power_df; or a call of alpha_power_df on lists of the caller; or  *)
(* a call of epoch_data; or a call of get_user_inputs.                     *)
(***************************************************************************)
\* the part of the state a run does not use
NoEpochData ==
    /\ task = ""
    /\ e_list = <<>>
    /\ raw = NoRaw
NoAnalysis ==
    /\ epochs = NoEpochs
    /\ conditions = <<>>
    /\ right_power_list = <<>>
    /\ left_power_list = <<>>
NoUserInput == stdin = <<>>

InitEpochData ==
    /\ pc = "epoch_data"
    /\ task \in Tasks
    /\ e_list \in {EventList(stims) : stims \in SeqsUpTo(Stims, MaxEvents)}
    /\ raw \in [n_samples : 0..MaxSamples, sfreq : 1..MaxSfreq]
    /\ NoAnalysis
    /\ NoUserInput

InitPipeline ==
    /\ pc = "start"
    /\ epochs \in Stores
    /\ conditions = <<>>
    /\ right_power_list = <<>>
    /\ left_power_list = <<>>
    /\ NoEpochData
    /\ NoUserInput

InitTable ==
    /\ pc = "ready"
    /\ epochs = NoEpochs
    /\ conditions \in LabelLists
    /\ right_power_list \in PowerLists
    /\ left_power_list \in PowerLists
    /\ NoEpochData
    /\ NoUserInput

InitUserInputs ==
    /\ pc = "asking"
    /\ stdin \in SeqsUpTo(Lines, MaxLines)
    /\ NoAnalysis
    /\ NoEpochData

Init ==
    /\ InitPipeline \/ InitTable \/ InitEpochData \/ InitUserInputs
    /\ sorted_epochs = <<>>
    /\ df = <<>>
    /\ err = ""
    /\ events = <<>>
    /\ event_id = <<>>
    /\ tmin = 0
    /\ tmax = 0
    /\ nread = 0
    /\ user_inputs = <<>>

SortEpochsInPlace ==
    /\ pc = "start"
    /\ LET r == SortEpochsResult(epochs)
           Kept(t) == ~Contains("dis_top", t.tag) /\ ~Contains("dis_bot", t.tag)
       IN /\ err' = r.error
          /\ sorted_epochs' = r.value
          /\ pc' = IF r.error = "" THEN "sorted" ELSE "failed"
          /\ epochs' = [epochs EXCEPT !.trials = SelectSeq(epochs.trials, Kept)]
    /\ UNCHANGED <<conditions, right_power_list, left_power_list, df>>
    /\ UNCHANGED preproc_vars

SortEpochs ==
    /\ pc = "start"
    /\ LET r == SortEpochsResult(epochs)
       IN /\ err' = r.error
          /\ sorted_epochs' = r.value
          /\ pc' = IF r.error = "" THEN "sorted" ELSE "failed"
    /\ UNCHANGED <<epochs, conditions, right_power_list, left_power_list, df>>
    /\ UNCHANGED preproc_vars

ExtractConditions ==
    /\ pc \in {"sorted", "computed"}
    /\ LET r == ExtractConditionsResult(sorted_epochs)
       IN /\ err' = r.error
          /\ conditions' = r.value
          /\ pc' = IF r.error # "" THEN "failed"
                   ELSE IF pc = "sorted" THEN "extracted" ELSE "ready"
    /\ UNCHANGED <<epochs, sorted_epochs, right_power_list, left_power_list, df>>
    /\ UNCHANGED preproc_vars

ComputeAlphaBySide ==
    /\ pc \in {"sorted", "extracted"}
    /\ LET r == ComputeAlphaBySideResult(sorted_epochs)
       IN /\ right_power_list' = r.right
          /\ left_power_list' = r.left
    /\ pc' = IF pc = "sorted" THEN "computed" ELSE "ready"
    /\ UNCHANGED <<epochs, sorted_epochs, conditions, df, err>>
    /\ UNCHANGED preproc_vars

AlphaPowerDf ==
    /\ pc = "ready"
    /\ LET r == AlphaPowerDfResult(conditions, right_power_list, left_power_list)
       IN /\ err' = r.error
          /\ df' = r.value
          /\ pc' = IF r.error = "" THEN "done" ELSE "failed"
    /\ UNCHANGED <<epochs, sorted_epochs, conditions, right_power_list, left_power_list>>
    /\ UNCHANGED preproc_vars

EpochData ==
    /\ pc = "epoch_data"
    /\ LET r == EpochDataResult(task, e_list, raw)
       IN /\ err' = r.error
          /\ events' = r.events
          /\ event_id' = r.event_id
          /\ tmin' = r.tmin
          /\ tmax' = r.tmax
          /\ pc' = IF r.error = "" THEN "epoching" ELSE "failed"
    /\ UNCHANGED <<epochs, sorted_epochs, conditions, right_power_list,
                   left_power_list, df>>
    /\ UNCHANGED <<task, e_list, raw, stdin, nread, user_inputs>>

\* one turn of the loop of get_user_inputs: input() gives the next line
\* typed; 'ok' in any case ends the loop, a number is appended, anything
\* else is answered with a message
GetUserInputs ==
    /\ pc = "asking"
    /\ nread < Len(stdin)
    /\ LET user_input == stdin[nread + 1]
       IN /\ nread' = nread + 1
          /\ IF StrLower(user_input) = "ok"
             THEN pc' = "returned" /\ UNCHANGED user_inputs
             ELSE /\ pc' = pc
                  /\ IF IsInt(user_input)
                     THEN user_inputs' = Append(user_inputs, IntOf(user_input))
                     ELSE UNCHANGED user_inputs
    /\ UNCHANGED <<epochs, sorted_epochs, conditions, right_power_list,
                   left_power_list, df, err>>
    /\ UNCHANGED <<task, e_list, raw, events, event_id, tmin, tmax, stdin>>

Next ==
    \/ SortEpochs
    \/ ExtractConditions
    \/ ComputeAlphaBySide
    \/ AlphaPowerDf
    \/ EpochData
    \/ GetUserInputs

Spec == Init /\ [][Next]_vars

(***************************************************************************)
(* Properties of sort_epochs.                                              *)
(***************************************************************************)
\* sort_epochs has returned its list / has raised
SortReturned == sorted_epochs # <<>>
SortFailed == pc = "failed" /\ epochs # NoEpochs /\ sorted_epochs = <<>>

\* the store carries the eight N2pc event names in their declared order
CanonicalStore == epochs.event_id = N2pcEventId

\* the trials of the store with a given event name, in the store's order
TrialsOf(tag) == LET Has(t) == t.tag = tag IN SelectSeq(epochs.trials, Has)

RECURSIVE TotalTrials(_)
TotalTrials(list) ==
    IF list = <<>> THEN 0 ELSE Len(Head(list).trials) + TotalTrials(Tail(list))

\* C1: for a store with the eight canonical event names in declared order,
\* whatever the number of trials of each name, sort_epochs returns exactly 6
\* slices; their trial counts add up to the store's, no trial is in two
\* slices, and the trials of the slices are exactly the trials of the store.
C1_Partition ==
    (SortReturned /\ CanonicalStore) =>
        /\ Len(sorted_epochs) = 6
        /\ TotalTrials(sorted_epochs) = Len(epochs.trials)
        /\ \A i, j \in 1..Len(sorted_epochs) :
              i # j => Range(sorted_epochs[i].trials)
                          \cap Range(sorted_epochs[j].trials) = {}
        /\ UNION {Range(sorted_epochs[i].trials) : i \in 1..Len(sorted_epochs)}
              = Range(epochs.trials)

\* a store of MaxTrials trials with an event name that has no trial and a
\* merged slice of several trials has been sorted
C1_Witness ==
    /\ SortReturned /\ CanonicalStore
    /\ Len(epochs.trials) = MaxTrials
    /\ TrialsOf("no_dis/target_l") = <<>>
    /\ Len(sorted_epochs[5].trials) >= 2

\* C2: the fifth slice is the dis_top/target_l trials followed by the
\* dis_bot/target_l trials and the sixth the dis_top/target_r trials followed
\* by the dis_bot/target_r trials, each bucket in the store's order; so the
\* size of a merged slice is the sum of the sizes of its two buckets.
C2_MidIsTopThenBottom ==
    (SortReturned /\ CanonicalStore) =>
        /\ sorted_epochs[5].trials
              = TrialsOf("dis_top/target_l") \o TrialsOf("dis_bot/target_l")
        /\ sorted_epochs[6].trials
              = TrialsOf("dis_top/target_r") \o TrialsOf("dis_bot/target_r")
        /\ Len(sorted_epochs[5].trials)
              = Len(TrialsOf("dis_top/target_l")) + Len(TrialsOf("dis_bot/target_l"))
        /\ Len(sorted_epochs[6].trials)
              = Len(TrialsOf("dis_top/target_r")) + Len(TrialsOf("dis_bot/target_r"))

\* a bottom trial recorded before a top trial of the same target side ends up
\* behind it in the merged slice
C2_Witness ==
    /\ SortReturned /\ CanonicalStore
    /\ Len(sorted_epochs[5].trials) = 2
    /\ sorted_epochs[5].trials[1].tag = "dis_top/target_l"
    /\ sorted_epochs[5].trials[2].tag = "dis_bot/target_l"
    /\ sorted_epochs[5].trials[2].idx < sorted_epochs[5].trials[1].idx

\* the event names of the six slices, in the order sort_epochs documents
SliceOrder ==
    << {"no_dis/target_l"}, {"no_dis/target_r"}, {"dis_right/target_l"},
       {"dis_left/target_r"}, {"dis_top/target_l", "dis_bot/target_l"},
       {"dis_top/target_r", "dis_bot/target_r"} >>

\* C3: what is left after the deletions is, in this order, no_dis/target_l,
\* no_dis/target_r, dis_right/target_l, dis_left/target_r, mid/target_l,
\* mid/target_r, each slice holding all the store's trials of its event
\* names: of the 10 elements of the working list exactly those at positions
\* 0, 1, 4 and 5 are gone and the others kept their relative order; for
\* the store with TrialsPerBucket trials per event name the sizes are n, n,
\* n, n, 2n, 2n.
C3_OrderAfterRemoval ==
    (SortReturned /\ CanonicalStore) =>
        /\ Len(sorted_epochs) = 6
        /\ LET w == Merged(SelectAll(epochs))
           IN sorted_epochs = << w[3], w[4], w[7], w[8], w[9], w[10] >>
        /\ \A i \in 1..6 :
              /\ \A k \in 1..Len(sorted_epochs[i].trials) :
                    sorted_epochs[i].trials[k].tag \in SliceOrder[i]
              /\ Len(sorted_epochs[i].trials)
                    = Cardinality({k \in 1..Len(epochs.trials) :
                                      epochs.trials[k].tag \in SliceOrder[i]})
        /\ epochs = FullStore =>
              [i \in 1..6 |-> Len(sorted_epochs[i].trials)]
                 = << TrialsPerBucket, TrialsPerBucket, TrialsPerBucket,
                      TrialsPerBucket, 2 * TrialsPerBucket, 2 * TrialsPerBucket >>

\* the store with equally filled buckets has been sorted
C3_Witness ==
    /\ SortReturned /\ epochs = FullStore
    /\ Len(sorted_epochs[1].trials) = TrialsPerBucket
    /\ Len(sorted_epochs[6].trials) = 2 * TrialsPerBucket

\* one of the eight canonical event names is not a key of the store
MissingCondition == ~(Range(N2pcEventId) \subseteq Range(epochs.event_id))

\* C4 as claimed: when a canonical event name is absent from the store,
\* sort_epochs fails and returns no list (the claim names the error
\* MissingConditionError; here any error counts as failing).
C4_FailsWhenTagMissing ==
    (pc # "start" /\ epochs # NoEpochs /\ MissingCondition) => SortFailed

\* C4 as amended: sort_epochs looks at no event name; it raises IndexError
\* exactly when the store has fewer than six event names, and otherwise
\* returns a list of two slices fewer than the store has event names,
\* whether or not the names are the canonical ones.
C4_FailsOnlyBelowSixTags ==
    (pc # "start" /\ epochs # NoEpochs) =>
        /\ SortFailed <=> Len(epochs.event_id) < 6
        /\ SortFailed => err = "IndexError"
        /\ ~SortFailed => Len(sorted_epochs) = Len(epochs.event_id) - 2

\* a store without dis_left/target_r has been sorted into a list
C4_Witness ==
    /\ SortReturned /\ MissingCondition
    /\ Len(epochs.event_id) = 7
    /\ Len(sorted_epochs) = 5

(***************************************************************************)
(* Properties of extract_conditions.                                       *)
(***************************************************************************)
\* extract_conditions has returned its list / has raised
ExtractReturned == conditions # <<>> /\ epochs # NoEpochs
ExtractFailed == pc = "failed" /\ SortReturned /\ conditions = <<>>

\* C5 as claimed: no label is returned for a list with a slice that carries
\* two or more event names.
C5_FailsOnSeveralTags ==
    ExtractReturned =>
        \A i \in 1..Len(sorted_epochs) : Len(sorted_epochs[i].event_id) <= 1

\* C5 as amended: the label of each slice is the first key of the slice's
\* event_id, whether or not it is the only one; extract_conditions raises
\* (IndexError) exactly when a slice has no key at all, so a slice merged
\* from top and bottom trials is labelled with its top event name.
C5_LabelIsFirstKey ==
    /\ ExtractReturned =>
          /\ Len(conditions) = Len(sorted_epochs)
          /\ \A i \in 1..Len(sorted_epochs) :
                /\ sorted_epochs[i].event_id # <<>>
                /\ conditions[i] = sorted_epochs[i].event_id[1]
    /\ ExtractFailed =>
          /\ err = "IndexError"
          /\ \E i \in 1..Len(sorted_epochs) : sorted_epochs[i].event_id = <<>>
    /\ (SortReturned /\ pc \in {"extracted", "ready", "done"}) => ExtractReturned

\* a slice merged from a top and a bottom trial got the label of the top one
C5_Witness ==
    /\ ExtractReturned /\ CanonicalStore
    /\ sorted_epochs[5].event_id = << "dis_top/target_l", "dis_bot/target_l" >>
    /\ conditions[5] = "dis_top/target_l"

(***************************************************************************)
(* Properties of alpha_power_df.                                           *)
(***************************************************************************)
\* alpha_power_df has returned its frame / has been called
TableReturned == pc = "done"
TableCalled == pc = "done" \/ (pc = "failed" /\ err = "ValueError")

\* the call had 6 labels and two lists of 6 power values
SixOfEach ==
    Len(conditions) = 6 /\ Len(right_power_list) = 6 /\ Len(left_power_list) = 6

HasLeft(label) == Contains("target_l", label)
HasRight(label) == Contains("target_r", label)

\* the label has none of the fragments the distractor side is read from
NoDistractorFragment(label) ==
    /\ ~Contains("dis_top", label) /\ ~Contains("no_dis", label)
    /\ ~Contains("dis_right", label) /\ ~Contains("dis_left", label)

\* C6: for 6 labels and two lists of 6 power values the frame has exactly 12
\* rows; row i for 0 <= i < 6 holds labels[i] and right_power[i], row i for
\* 6 <= i < 12 holds labels[i-6] and left_power[i-6].
C6_TwelveRows ==
    (TableCalled /\ SixOfEach) =>
        /\ TableReturned
        /\ Len(df) = 12
        /\ \A i \in 0..5 :
              /\ df[i + 1].condition = conditions[i + 1]
              /\ df[i + 1].alpha_power = right_power_list[i + 1]
        /\ \A i \in 6..11 :
              /\ df[i + 1].condition = conditions[i - 5]
              /\ df[i + 1].alpha_power = left_power_list[i - 5]

\* a frame of 12 rows whose two halves hold different power values
C6_Witness ==
    /\ TableReturned /\ SixOfEach
    /\ right_power_list # left_power_list
    /\ df[1].alpha_power # df[7].alpha_power
    /\ df[1].condition # df[2].condition

\* C7 as claimed: a row whose label contains "target_l" has alpha_side
\* "contra" at row index 0..5 and "ipsi" at 6..11; a row whose label contains
\* "target_r" has "ipsi" at 0..5 and "contra" at 6..11.
C7_AlphaSideByMarker ==
    TableReturned =>
        \A r \in 1..Len(df) :
            /\ HasLeft(df[r].condition) =>
                  df[r].alpha_side = IF r - 1 <= 5 THEN "contra" ELSE "ipsi"
            /\ HasRight(df[r].condition) =>
                  df[r].alpha_side = IF r - 1 <= 5 THEN "ipsi" ELSE "contra"

\* C7 as amended: the rule for "target_r" holds for the labels that do not
\* also contain "target_l"; a label with both markers is treated as a
\* target_l label.
C7_AlphaSideLeftFirst ==
    TableReturned =>
        \A r \in 1..Len(df) :
            /\ HasLeft(df[r].condition) =>
                  df[r].alpha_side = IF r - 1 <= 5 THEN "contra" ELSE "ipsi"
            /\ (HasRight(df[r].condition) /\ ~HasLeft(df[r].condition)) =>
                  df[r].alpha_side = IF r - 1 <= 5 THEN "ipsi" ELSE "contra"

\* a frame of 12 rows with target_l and target_r labels in both halves
C7_Witness ==
    /\ TableReturned /\ Len(df) = 12
    /\ \E r \in 1..6 : HasLeft(df[r].condition) /\ df[r + 6].alpha_side = "ipsi"
    /\ \E r \in 1..6 : /\ HasRight(df[r].condition) /\ ~HasLeft(df[r].condition)
                       /\ df[r].alpha_side = "ipsi"
                       /\ df[r + 6].alpha_side = "contra"

\* C8 as claimed: target_side is "left" for a label with "target_l" and
\* "right" for one with "target_r", and for a list with a label that has
\* neither marker, or both, the construction fails and returns no frame.
C8_FailsOnBadLabel ==
    /\ TableReturned =>
          \A r \in 1..Len(df) :
              /\ HasLeft(df[r].condition) => df[r].target_side = "left"
              /\ HasRight(df[r].condition) => df[r].target_side = "right"
    /\ (TableCalled /\ \E i \in 1..Len(conditions) :
                          HasLeft(conditions[i]) <=> HasRight(conditions[i]))
          => ~TableReturned

\* C8 as amended: target_side is "left" for a label with "target_l" (also
\* when it has "target_r" too), otherwise "right" for a label with
\* "target_r", otherwise it stays unset; no label makes the construction
\* fail: it fails only when the lengths of the lists do not fit.
C8_TargetSideLeftFirst ==
    /\ TableReturned =>
          \A r \in 1..Len(df) :
              df[r].target_side =
                  IF HasLeft(df[r].condition) THEN "left"
                  ELSE IF HasRight(df[r].condition) THEN "right"
                  ELSE NaN
    /\ TableCalled =>
          (TableReturned <=>
              Len(right_power_list) + Len(left_power_list) = 2 * Len(conditions))

\* a frame was returned for a list with a label that has no target marker
C8_Witness ==
    /\ TableReturned
    /\ \E r \in 1..Len(df) :
          /\ ~HasLeft(df[r].condition) /\ ~HasRight(df[r].condition)
          /\ df[r].target_side = NaN

\* the call of the specification's scenario
Scenario ==
    /\ conditions = RefLabels
    /\ right_power_list = [i \in 1..6 |-> i]
    /\ left_power_list = [i \in 1..6 |-> 10 * i]

Row(c, t, d, a, p) ==
    [condition |-> c, target_side |-> t, distractor_side |-> d,
     alpha_side |-> a, alpha_power |-> p]

\* C9 as claimed: distractor_side is "none" for a label with "dis_top" or
\* "no_dis", "right" for one with "dis_right", "left" for one with
\* "dis_left"; in the scenario rows 0, 6 and 2 are (no_dis/target_l, left,
\* none, contra, 1), (no_dis/target_l, left, none, ipsi, 10) and
\* (dis_right/target_l, left, right, contra, 3).
C9_DistractorNone ==
    TableReturned =>
        /\ \A r \in 1..Len(df) :
              LET label == df[r].condition
              IN /\ (Contains("dis_top", label) \/ Contains("no_dis", label))
                       => df[r].distractor_side = "none"
                 /\ Contains("dis_right", label) => df[r].distractor_side = "right"
                 /\ Contains("dis_left", label) => df[r].distractor_side = "left"
        /\ Scenario =>
              /\ df[1] = Row("no_dis/target_l", "left", "none", "contra", 1)
              /\ df[7] = Row("no_dis/target_l", "left", "none", "ipsi", 10)
              /\ df[3] = Row("dis_right/target_l", "left", "right", "contra", 3)

\* C9 as amended: the value written for "dis_top" and "no_dis" labels is
\* "nodis"; the tests are tried in the order dis_top or no_dis, dis_right,
\* dis_left, and the first that matches decides; in the scenario rows 0, 6
\* and 2 are (no_dis/target_l, left, nodis, contra, 1), (no_dis/target_l,
\* left, nodis, ipsi, 10) and (dis_right/target_l, left, right, contra, 3).
C9_DistractorNodis ==
    TableReturned =>
        /\ \A r \in 1..Len(df) :
              LET label == df[r].condition
                  none  == Contains("dis_top", label) \/ Contains("no_dis", label)
              IN /\ none => df[r].distractor_side = "nodis"
                 /\ (~none /\ Contains("dis_right", label))
                       => df[r].distractor_side = "right"
                 /\ (~none /\ ~Contains("dis_right", label)
                           /\ Contains("dis_left", label))
                       => df[r].distractor_side = "left"
        /\ Scenario =>
              /\ df[1] = Row("no_dis/target_l", "left", "nodis", "contra", 1)
              /\ df[7] = Row("no_dis/target_l", "left", "nodis", "ipsi", 10)
              /\ df[3] = Row("dis_right/target_l", "left", "right", "contra", 3)

\* the frame of the scenario, and a frame with a dis_top label
C9_Witness ==
    /\ TableReturned
    /\ \/ Scenario /\ df[1].distractor_side = "nodis"
       \/ \E r \in 1..Len(df) : /\ Contains("dis_top", df[r].condition)
                                /\ df[r].distractor_side = "nodis"
    /\ \E r \in 1..Len(df) : df[r].distractor_side = "left"

\* C10: a row whose label names a target side and has none of "dis_top",
\* "no_dis", "dis_right", "dis_left" (dis_vert/target_l, dis_bot/target_l)
\* keeps distractor_side unset, and no error is raised for it; its
\* target_side, alpha_side and alpha_power are filled, and so is every
\* column of the rows whose labels have a distractor fragment.
C10_VerticalUnset ==
    /\ TableReturned =>
          \A r \in 1..Len(df) :
              LET label == df[r].condition
              IN (HasLeft(label) \/ HasRight(label)) =>
                    /\ df[r].target_side \in {"left", "right"}
                    /\ df[r].alpha_side \in {"ipsi", "contra"}
                    /\ df[r].alpha_power = (right_power_list \o left_power_list)[r]
                    /\ IF NoDistractorFragment(label)
                       THEN df[r].distractor_side = NaN
                       ELSE df[r].distractor_side \in {"nodis", "left", "right"}
    /\ (TableCalled /\ SixOfEach
          /\ \E i \in 1..6 : NoDistractorFragment(conditions[i]))
          => TableReturned

\* a frame with a dis_bot row that has no distractor side beside a complete
\* row
C10_Witness ==
    /\ TableReturned
    /\ \E r \in 1..Len(df) :
          /\ df[r].condition = "dis_bot/target_l"
          /\ df[r].distractor_side = NaN
          /\ df[r].target_side = "left"
    /\ \E r \in 1..Len(df) : df[r].distractor_side = "right"

(***************************************************************************)
(* Properties of compute_alpha_by_side.                                    *)
(***************************************************************************)
\* compute_alpha_by_side has returned its two lists
ComputeReturned == epochs # NoEpochs /\ right_power_list # <<>>

\* C11: the two lists have one value per slice of the input list; value i of
\* each list is the mean power of slice i at that cluster, the value the
\* function gives for slice i when it is passed alone, whatever the other
\* slices and their numbers of trials are.
C11_OneValuePerSlice ==
    /\ ComputeReturned =>
          /\ Len(right_power_list) = Len(sorted_epochs)
          /\ Len(left_power_list) = Len(sorted_epochs)
          /\ \A i \in 1..Len(sorted_epochs) :
                LET alone == ComputeAlphaBySideResult(<< sorted_epochs[i] >>)
                IN /\ right_power_list[i] = alone.right[1]
                   /\ left_power_list[i] = alone.left[1]
                   /\ right_power_list[i] = MeanPower(sorted_epochs[i], right_elecs)
                   /\ left_power_list[i] = MeanPower(sorted_epochs[i], left_elecs)
    /\ (SortReturned /\ pc \in {"computed", "ready", "done"}) => ComputeReturned

\* the power of slices with different numbers of trials has been computed
C11_Witness ==
    /\ ComputeReturned
    /\ \E i, j \in 1..Len(sorted_epochs) :
          /\ i < j
          /\ Len(sorted_epochs[i].trials) > 0
          /\ Len(sorted_epochs[j].trials) > Len(sorted_epochs[i].trials)
          /\ right_power_list[i] # right_power_list[j]
          /\ left_power_list[i] # left_power_list[j]

(***************************************************************************)
(* Properties of the two halves of the frame, and of the arguments.        *)
(***************************************************************************)
\* C12 as claimed: for 6 labels, rows i and i+6 have the same condition,
\* target_side and distractor_side, and differ in alpha_side and in
\* alpha_power.
C12_HalvesDiffer ==
    (TableReturned /\ SixOfEach) =>
        \A i \in 1..6 :
            /\ df[i].condition = df[i + 6].condition
            /\ df[i].target_side = df[i + 6].target_side
            /\ df[i].distractor_side = df[i + 6].distractor_side
            /\ df[i].alpha_side # df[i + 6].alpha_side
            /\ df[i].alpha_power # df[i + 6].alpha_power

\* C12 as amended: rows i and i+6 have the same condition, target_side and
\* distractor_side; their alpha_side is "contra" in one and "ipsi" in the
\* other when the label has a target marker and unset in both otherwise;
\* their alpha_power is right_power[i] and left_power[i], two values that
\* differ only if the caller's values differ.
C12_HalvesPaired ==
    (TableReturned /\ SixOfEach) =>
        \A i \in 1..6 :
            /\ df[i].condition = df[i + 6].condition
            /\ df[i].target_side = df[i + 6].target_side
            /\ df[i].distractor_side = df[i + 6].distractor_side
            /\ IF HasLeft(df[i].condition) \/ HasRight(df[i].condition)
               THEN {df[i].alpha_side, df[i + 6].alpha_side} = {"contra", "ipsi"}
               ELSE df[i].alpha_side = NaN /\ df[i + 6].alpha_side = NaN
            /\ df[i].alpha_power = right_power_list[i]
            /\ df[i + 6].alpha_power = left_power_list[i]

\* a frame whose rows 0 and 6 hold the same power value and opposite sides
C12_Witness ==
    /\ TableReturned /\ SixOfEach
    /\ right_power_list[1] = left_power_list[1]
    /\ df[1].alpha_power = df[7].alpha_power
    /\ df[1].alpha_side = "contra" /\ df[7].alpha_side = "ipsi"
    /\ df[2].condition # df[5].condition

\* C13: no step changes the trial store (same trials, same order, same
\* event names): sort_epochs only builds new slices; and alpha_power_df
\* leaves its three argument lists as they were.
C13_InputsUnchanged ==
    [][ /\ epochs' = epochs
        /\ pc = "ready" => /\ conditions' = conditions
                           /\ right_power_list' = right_power_list
                           /\ left_power_list' = left_power_list ]_vars

\* a store with top and bottom trials went through sort_epochs and its
\* labels and power values through alpha_power_df
C13_Witness ==
    /\ TableReturned /\ SortReturned
    /\ Len(sorted_epochs[5].trials) >= 2
    /\ Len(epochs.trials) = TotalTrials(sorted_epochs)
    /\ Len(df) = 2 * Len(conditions)

(***************************************************************************)
(* Properties of epoch_data.                                               *)
(***************************************************************************)
\* epoch_data has come to the call of mne.Epochs / has been called
EpochingReached == pc = "epoching"
EpochDataCalled == task # "" /\ pc # "epoch_data"

\* C14: the third condition holds for every task name: with any task other
\* than 'N2pc' and 'Alpheye', known or not, epoch_data takes the
\* resting-state branch, which gives the single event name 'fake_event', the
\* window 0 to 2.0 s and one event every 2.0 s of the recording; so it always
\* comes to the epoching step with events and event_id bound.
C14_RestingBranchAlways ==
    EpochDataCalled =>
        /\ EpochingReached /\ err = ""
        /\ event_id # <<>>
        /\ task \notin {"N2pc", "Alpheye"} =>
              LET step == 2 * raw.sfreq
              IN /\ event_id = << << "fake_event", 1 >> >>
                 /\ tmin = 0 /\ tmax = 2000
                 /\ Len(events)
                       = Cardinality({m \in 0..(raw.n_samples - 1) : m % step = 0})
                 /\ \A k \in 1..Len(events) :
                       events[k] = << (k - 1) * step, 0, 1 >>

\* a task name the pipeline does not know got the fake events
C14_Witness ==
    /\ EpochingReached
    /\ task = "Oddball"
    /\ Len(events) >= 2
    /\ event_id[1][1] = "fake_event"

(***************************************************************************)
(* Properties of get_user_inputs.                                          *)
(***************************************************************************)
\* what the lines a user may type are: 'ok' in some case, a number, neither
OkLines == {"ok", "OK", "Ok"}
NumberOf(line) ==
    CASE line = "3" -> 3 [] line = "12" -> 12 [] line = "-4" -> -4
      [] line = " 7 " -> 7
NumberLines == {"3", "12", "-4", " 7 "}

RECURSIVE NumbersOf(_)
\* the numbers among the lines, in the order of the lines
NumbersOf(lines) ==
    IF lines = <<>> THEN <<>>
    ELSE (IF Head(lines) \in NumberLines THEN << NumberOf(Head(lines)) >> ELSE <<>>)
            \o NumbersOf(Tail(lines))

\* the lines read so far / the position of the first 'ok' line typed, 0 when
\* there is none
LinesRead == SubSeq(stdin, 1, nread)
FirstOk ==
    IF \E k \in 1..Len(stdin) : stdin[k] \in OkLines
    THEN CHOOSE k \in 1..Len(stdin) :
            stdin[k] \in OkLines /\ \A j \in 1..(k - 1) : stdin[j] \notin OkLines
    ELSE 0

\* C15: the loop ends at the first line that is 'ok' in any case and returns
\* the numbers typed before it, in the order typed, repeated ones kept; a
\* line that is neither adds nothing and does not end the loop; the loop
\* ends only when such an 'ok' line comes: as long as none was read it goes
\* on asking, and it stays waiting only when no 'ok' line is left to read.
C15_StopsAtFirstOk ==
    /\ pc = "returned" =>
          /\ FirstOk # 0
          /\ nread = FirstOk
          /\ user_inputs = NumbersOf(SubSeq(stdin, 1, FirstOk - 1))
    /\ pc = "asking" =>
          /\ \A k \in 1..nread : stdin[k] \notin OkLines
          /\ user_inputs = NumbersOf(LinesRead)
          /\ nread = Len(stdin) => FirstOk = 0

\* the loop returned one number after a line that is neither a number nor
\* 'ok', on an 'ok' line that is not in lower case
C15_Witness ==
    /\ pc = "returned"
    /\ nread = 3
    /\ stdin[1] \in {"x", " ok"}
    /\ stdin[2] = " 7 "
    /\ stdin[3] \in {"OK", "Ok"}
    /\ user_inputs = << 7 >>
====
